---- MODULE Spec2Model ----
(***************************************************************************)
(* Model of the backtest subsystem of intraq-signals (src/src/backtest.ts). *)
(*                                                                         *)
(*  ScanSpec : the tick loop and outcome calculation of backtestSignal,     *)
(*             run on every bounded signal and session.                     *)
(*  Spec     : backtestBatch (timing guard, per-item fetch, persistence,    *)
(*             progress callback, rate-limit delay) and its re-run.         *)
(*  GenSpec  : generateMockIntradayData, called twice on the same inputs.   *)
(*  IntakeSpec, LiveSpec : backtestBatch on signals of any levels, and    *)
(*             under fair scheduling of the program's own steps.           *)
(*  CredSpec : the credential handlers of components/Settings.tsx.          *)
(*  UiSpec   : runBacktest as the history view's buttons start it.           *)
(*  RankSpec : saveRankings interleaved with backtestBatch.                 *)
(*  DeleteSpec : deleteBatch on the tables the history view can list.       *)
(***************************************************************************)
EXTENDS Integers, Sequences, FiniteSets, TLC

\* ---------------------------------------------------------------- bounds
\* Longest session (number of ticks) handed to the scanner.
MaxTicks == 3

\* Price grid: signal levels and tick highs/lows are drawn from it.
Levels == 1..3

Sides == {"LONG", "SHORT"}

\* JavaScript's undefined, for an optional time or number: the empty tuple.
\* A defined number n is held as <<n>>.
Undefined == <<>>

Some(n) == <<n>>

\* Spacing, in minutes, between consecutive ticks of a session: an ascending
\* grid (with gaps), repeated times and a descending (unsorted) feed.
TimeSteps == {90, 0, -5}

\* Clock time of the first tick of a session, in minutes after midnight.
SessionStart == 9 * 60 + 15

\* ------------------------------------------------------- times and ticks
\* A "HH:MM" string is the pair <<HH, MM>> that time.split(':').map(Number)
\* reads from it.
TimeStr(mins) == <<mins \div 60, mins % 60>>

\* time24.split(':').map(Number) followed by h * 60 + m.
ClockMinutes(t) == t[1] * 60 + t[2]

\* to12Hour: "H:MM AM|PM" is the triple <<H, MM, period>>.
to12Hour(time24) ==
    LET hours == time24[1]
        minutes == time24[2]
        period == IF hours >= 12 THEN "PM" ELSE "AM"
        hours12 == IF hours % 12 = 0 THEN 12 ELSE hours % 12
    IN <<hours12, minutes, period>>

\* The bars (high, low) of one tick; a bar's low never exceeds its high.
Bars == {b \in [high : Levels, low : Levels] : b.low <= b.high}

BarSeqs == UNION {[1..n -> Bars] : n \in 1..MaxTicks}

\* The session made of the bars bs, tick i stamped SessionStart + (i-1)*step.
MkSession(bs, step) ==
    [i \in 1..Len(bs) |->
        [time |-> TimeStr(SessionStart + (i - 1) * step),
         high |-> bs[i].high, low |-> bs[i].low]]

Sessions == {MkSession(bs, step) : bs \in BarSeqs, step \in TimeSteps}

Signals == [side : Sides, entry : Levels, target : Levels, stopLoss : Levels]

\* ----------------------------------------------------------- tick scanner
\* The three hit conditions of the loop body, per side.  Each is preceded by
\* a faulty variant that the properties below are required to tell apart.
EntryCond_Strict(sig, tick) ==
    IF sig.side = "LONG" THEN tick.low < sig.entry ELSE tick.high > sig.entry

EntryCond(sig, tick) ==
    IF sig.side = "LONG" THEN tick.low <= sig.entry ELSE tick.high >= sig.entry

TargetCond_Strict(sig, tick) ==
    IF sig.side = "LONG" THEN tick.high > sig.target ELSE tick.low < sig.target

TargetCond(sig, tick) ==
    IF sig.side = "LONG" THEN tick.high >= sig.target ELSE tick.low <= sig.target

StopCond_ShortUsesLow(sig, tick) ==
    tick.low <= sig.stopLoss

StopCond(sig, tick) ==
    IF sig.side = "LONG" THEN tick.low <= sig.stopLoss ELSE tick.high >= sig.stopLoss

\* The `entryHit &&` conjunct of the target and stop-loss checks.
MayResolve_Always(st) == TRUE

MayResolve(st) == st.entryHit

\* The locals of backtestSignal before the loop.  entryTick, targetTick and
\* slTick record the position of the tick on which each flag was set.
ScanStart ==
    [entryHit |-> FALSE, entryHitTime |-> Undefined,
     targetHit |-> FALSE, targetHitTime |-> Undefined,
     slHit |-> FALSE, slHitTime |-> Undefined,
     entryTick |-> 0, targetTick |-> 0, slTick |-> 0]

\* One iteration of the loop body on tick number i.
ScanTick(sig, st, tick, i) ==
    LET s1 == IF ~st.entryHit /\ EntryCond(sig, tick)
              THEN [st EXCEPT !.entryHit = TRUE,
                              !.entryHitTime = to12Hour(tick.time),
                              !.entryTick = i]
              ELSE st
        s2 == IF MayResolve(s1) /\ ~s1.targetHit /\ TargetCond(sig, tick)
              THEN [s1 EXCEPT !.targetHit = TRUE,
                              !.targetHitTime = to12Hour(tick.time),
                              !.targetTick = i]
              ELSE s1
        s3 == IF MayResolve(s2) /\ ~s2.slHit /\ StopCond(sig, tick)
              THEN [s2 EXCEPT !.slHit = TRUE,
                              !.slHitTime = to12Hour(tick.time),
                              !.slTick = i]
              ELSE s2
    IN s3

\* The break at the end of the loop body.
ScanBreak_Never(st) == FALSE

ScanBreak_OnBoth(st) == st.targetHit /\ st.slHit /\ st.entryHit

ScanBreak(st) == (st.targetHit \/ st.slHit) /\ st.entryHit

\* The whole loop, from tick i on.
RECURSIVE ScanFrom(_, _, _, _)
ScanFrom(sig, data, i, st) ==
    IF i > Len(data) THEN st
    ELSE LET n == ScanTick(sig, st, data[i], i)
         IN IF ScanBreak(n) THEN n ELSE ScanFrom(sig, data, i + 1, n)

\* intradayData.find(t => to12Hour(t.time) === hitTime)?.time || dflt
FindTime_RawCompare(data, hitTime, dflt) ==
    LET I == {i \in 1..Len(data) : data[i].time = hitTime}
    IN IF I = {} THEN dflt
       ELSE data[CHOOSE i \in I : \A j \in I : i <= j].time

FindTime(data, hitTime, dflt) ==
    LET I == {i \in 1..Len(data) : to12Hour(data[i].time) = hitTime}
    IN IF I = {} THEN dflt
       ELSE data[CHOOSE i \in I : \A j \in I : i <= j].time

\* The comparison of the both-hit branch: did the target come first?
TargetBeforeStop_OrEqual(targetMins, slMins) == targetMins <= slMins

TargetBeforeStop(targetMins, slMins) == targetMins < slMins

\* Outcome and time metrics, computed after the loop.
CalcOutcome(data, st) ==
    LET entryMins == ClockMinutes(FindTime(data, st.entryHitTime, <<9, 15>>))
        targetMins == ClockMinutes(FindTime(data, st.targetHitTime, <<15, 30>>))
        slMins == ClockMinutes(FindTime(data, st.slHitTime, <<15, 30>>))
        none == [outcome |-> "no_trigger",
                 timeToTarget |-> Undefined, timeToSL |-> Undefined]
    IN IF ~st.entryHit THEN none
       ELSE IF st.targetHit /\ st.slHit
            THEN IF TargetBeforeStop(targetMins, slMins)
                 THEN [none EXCEPT !.outcome = "target",
                                   !.timeToTarget = Some(targetMins - entryMins)]
                 ELSE [none EXCEPT !.outcome = "sl",
                                   !.timeToSL = Some(slMins - entryMins)]
       ELSE IF st.targetHit
            THEN [none EXCEPT !.outcome = "target",
                              !.timeToTarget = Some(targetMins - entryMins)]
       ELSE IF st.slHit
            THEN [none EXCEPT !.outcome = "sl",
                              !.timeToSL = Some(slMins - entryMins)]
       ELSE none

\* The backtest record returned for a signal whose data was fetched.
MkRecord(st, oc) ==
    [entryHit |-> st.entryHit, entryHitTime |-> st.entryHitTime,
     targetHit |-> st.targetHit, targetHitTime |-> st.targetHitTime,
     slHit |-> st.slHit, slHitTime |-> st.slHitTime,
     outcome |-> oc.outcome,
     timeToTarget |-> oc.timeToTarget, timeToSL |-> oc.timeToSL]

\* backtestSignal on fetched data, as a function of the signal and the data.
ScanRecord(sig, data) ==
    LET st == ScanFrom(sig, data, 1, ScanStart)
    IN MkRecord(st, CalcOutcome(data, st))

\* ------------------------------------------------------------ timing guard
\* A signal date is <<day>>, or <<>> when the string does not parse (its
\* Date is invalid and every comparison with it is false).
Dates == 1..3

InvalidDate == <<>>

\* Wall-clock times of day, in minutes, at which a run may be started.
ClockTimes == {9 * 60 + 15, 15 * 60 + 29, 15 * 60 + 30, 15 * 60 + 59, 16 * 60}

MarketCloseTime == 15 * 60 + 30

DataAvailableTime == 16 * 60

\* signalDate < today
IsPastDate_Reversed(signalDate, todayDate) ==
    signalDate # InvalidDate /\ signalDate[1] > todayDate

IsPastDate(signalDate, todayDate) ==
    signalDate # InvalidDate /\ signalDate[1] < todayDate

\* signalDate.getTime() === today.getTime()
IsToday(signalDate, todayDate) ==
    signalDate # InvalidDate /\ signalDate[1] = todayDate

\* checkBacktestTiming, as a function of the date and the wall clock.
checkBacktestTiming(date, todayDate, currentTimeMinutes) ==
    IF IsPastDate(date, todayDate)
    THEN [canBacktest |-> TRUE, message |-> "Historical data available"]
    ELSE IF IsToday(date, todayDate)
    THEN IF currentTimeMinutes < MarketCloseTime
         THEN [canBacktest |-> FALSE,
               message |-> "Market is still open! Backtest after 4:00 PM IST"]
         ELSE IF currentTimeMinutes < DataAvailableTime
         THEN [canBacktest |-> TRUE,
               message |-> "Market just closed. Data might still be processing"]
         ELSE [canBacktest |-> TRUE,
               message |-> "Today's complete data should be available"]
    ELSE [canBacktest |-> FALSE, message |-> "Cannot backtest future date"]

\* canRunBacktest of the history view.
canRunBacktest(date, todayDate, currentTimeMinutes) ==
    IF IsPastDate(date, todayDate)
    THEN [allowed |-> TRUE, message |-> "undefined"]
    ELSE IF IsToday(date, todayDate)
    THEN IF currentTimeMinutes < DataAvailableTime
         THEN [allowed |-> FALSE,
               message |-> "Backtest only available after 4:00 PM IST"]
         ELSE [allowed |-> TRUE, message |-> "undefined"]
    ELSE [allowed |-> FALSE, message |-> "Cannot backtest future date"]

\* `signals.length > 0 && !timingCheck.canBacktest`: the run is thrown out.
GuardRejects_Never(n, timingCheck) == FALSE

GuardRejects(n, timingCheck) == n > 0 /\ ~timingCheck.canBacktest

\* ------------------------------------------------------------------ batch
\* Longest batch handed to backtestBatch.
MaxBatch == 2

DHAN_RATE_LIMIT_DELAY == 1000

Ids == 1..MaxBatch

\* The signal in position i of a batch: a LONG signal, stored under id i when
\* hasId, carrying no sector of its own and no backtest yet.
BatchSignal(i, hasId, date) ==
    [id |-> IF hasId THEN Some(i) ELSE Undefined,
     date |-> date, symbol |-> "WIPRO", sector |-> "undefined",
     side |-> "LONG", entry |-> 2, target |-> 3, stopLoss |-> 1,
     backtest |-> Undefined]

\* A history batch: its date and its signals, all of that date.
Batches ==
    {[date |-> d, signals |-> [i \in 1..Len(ids) |-> BatchSignal(i, ids[i], d)]] :
        d \in {Some(x) : x \in Dates} \cup {InvalidDate},
        ids \in UNION {[1..n -> BOOLEAN] : n \in 0..MaxBatch}}

\* What dhanApi.fetchIntradayData can settle with.  ticks is what the provider
\* delivered; data and dataSource are what backtestSignal reads from the
\* settled value as response.data and response.dataSource.
\*   - a rejection: every failure inside fetchIntradayData is rethrown;
\*   - no ticks: an empty array, or a value whose data is missing or empty;
\*   - the array of parsed ticks fetchIntradayData returns: an array has no
\*     data property, so response.data reads undefined (empty here);
\*   - a value {data, dataSource}, the shape backtestSignal reads.
\* One session reaches the target of the batch signals, the other their stop.
Rejection == [threw |-> TRUE, ticks |-> <<>>, data |-> <<>>, dataSource |-> "undefined"]

TargetSession == MkSession(<<[high |-> 2, low |-> 2], [high |-> 3, low |-> 2]>>, 90)

StopSession == MkSession(<<[high |-> 3, low |-> 3], [high |-> 2, low |-> 1]>>, 90)

Responses ==
    {Rejection,
     [threw |-> FALSE, ticks |-> <<>>, data |-> <<>>, dataSource |-> "undefined"],
     [threw |-> FALSE, ticks |-> TargetSession, data |-> <<>>,
      dataSource |-> "undefined"],
     [threw |-> FALSE, ticks |-> TargetSession, data |-> TargetSession,
      dataSource |-> "dhan"],
     [threw |-> FALSE, ticks |-> StopSession, data |-> StopSession,
      dataSource |-> "yfinance"]}

\* The record backtestSignal returns when no data could be had.
NoDataRecord_NotFlagged ==
    [entryHit |-> FALSE, entryHitTime |-> Undefined,
     targetHit |-> FALSE, targetHitTime |-> Undefined,
     slHit |-> FALSE, slHitTime |-> Undefined,
     outcome |-> "undefined",
     timeToTarget |-> Undefined, timeToSL |-> Undefined,
     usedRealData |-> FALSE, dataSource |-> "undefined", noData |-> FALSE]

NoDataRecord ==
    [entryHit |-> FALSE, entryHitTime |-> Undefined,
     targetHit |-> FALSE, targetHitTime |-> Undefined,
     slHit |-> FALSE, slHitTime |-> Undefined,
     outcome |-> "undefined",
     timeToTarget |-> Undefined, timeToSL |-> Undefined,
     usedRealData |-> FALSE, dataSource |-> "undefined", noData |-> TRUE]

\* The record backtestSignal returns once the fetch has settled with r.  A
\* field a record does not carry reads as undefined (noData: FALSE).
BacktestOf_Accumulates(sig, r) ==
    IF r.threw \/ Len(r.data) = 0
    THEN NoDataRecord
    ELSE LET rec == ScanRecord(sig, r.data)
             carried == /\ sig.backtest # Undefined
                        /\ sig.backtest[1].timeToTarget # Undefined
                        /\ rec.timeToTarget # Undefined
         IN [entryHit |-> rec.entryHit, entryHitTime |-> rec.entryHitTime,
             targetHit |-> rec.targetHit, targetHitTime |-> rec.targetHitTime,
             slHit |-> rec.slHit, slHitTime |-> rec.slHitTime,
             outcome |-> rec.outcome,
             timeToTarget |-> IF carried
                              THEN Some(sig.backtest[1].timeToTarget[1]
                                        + rec.timeToTarget[1])
                              ELSE rec.timeToTarget,
             timeToSL |-> rec.timeToSL,
             usedRealData |-> TRUE, dataSource |-> r.dataSource,
             noData |-> FALSE]

BacktestOf(sig, r) ==
    IF r.threw \/ Len(r.data) = 0
    THEN NoDataRecord
    ELSE LET rec == ScanRecord(sig, r.data)
         IN [entryHit |-> rec.entryHit, entryHitTime |-> rec.entryHitTime,
             targetHit |-> rec.targetHit, targetHitTime |-> rec.targetHitTime,
             slHit |-> rec.slHit, slHitTime |-> rec.slHitTime,
             outcome |-> rec.outcome,
             timeToTarget |-> rec.timeToTarget, timeToSL |-> rec.timeToSL,
             usedRealData |-> TRUE, dataSource |-> r.dataSource,
             noData |-> FALSE]

\* signal.sector ?? sectorMap[signal.symbol] ?? "UNKNOWN"; the batch symbols
\* have no entry in the sector map.
SectorOf(sig) == IF sig.sector # "undefined" THEN sig.sector ELSE "UNKNOWN"

\* `i < signals.length - 1 && !backtested.backtest?.noData` (i counted from 1
\* here): the rate-limit delay is waited after item i of n.
DelayNeeded_AfterLast(i, n, backtest) == ~backtest.noData

DelayNeeded(i, n, backtest) == i < n /\ ~backtest.noData

\* db.signals.update(id, changes) on the stored fields row of a signal: each
\* key of changes is set to its new value, the backtest as one whole object.
update_Merge(row, changes) ==
    IF row # Undefined /\ changes.backtest.noData
    THEN Some([sector |-> changes.sector,
               backtest |-> [row[1].backtest EXCEPT !.noData = TRUE]])
    ELSE Some(changes)

update(row, changes) == Some(changes)

\* results.filter(r => r.backtest?.dataSource === src).length
CountBySource_DhanOnly(rs, src) ==
    IF src = "dhan"
    THEN Cardinality({i \in 1..Len(rs) : rs[i].backtest.dataSource = src})
    ELSE 0

CountBySource(rs, src) ==
    Cardinality({i \in 1..Len(rs) : rs[i].backtest.dataSource = src})

\* results.filter(r => r.backtest?.noData).length
CountNoData(rs) == Cardinality({i \in 1..Len(rs) : rs[i].backtest.noData})

\* batch.signals.some(s => s.backtest)
hasBacktest(signals) == \E i \in 1..Len(signals) : signals[i].backtest # Undefined

\* loadHistory: the batch as read back from db.signals, every stored signal
\* with the sector and backtest its row holds.
loadHistory(b, st) ==
    [b EXCEPT !.signals =
        [i \in 1..Len(b.signals) |->
            LET s == b.signals[i]
            IN IF s.id # Undefined /\ st[s.id[1]] # Undefined
               THEN [s EXCEPT !.sector = st[s.id[1]][1].sector,
                              !.backtest = Some(st[s.id[1]][1].backtest)]
               ELSE s]]

\* ------------------------------------------------------------------ state
VARIABLES
    \* backtestSignal, the tick scanner
    signal,        \* the signal being backtested
    intradayData,  \* the ticks the provider returned for it
    scanPc,        \* "loop" | "outcome" | "done" ("off" outside ScanSpec)
    tickIdx,       \* position of the loop in intradayData
    bt,            \* the loop's locals (see ScanStart)
    result,        \* the returned backtest record (Undefined until "done")
    \* backtestBatch and its callers
    today,         \* the wall clock's date
    clockMin,      \* the wall clock's time of day, in minutes
    configured,    \* dhanApi.isConfigured(): active credentials are stored
    batch,         \* the history batch that is run
    bPc,           \* where the run stands ("off" outside Spec)
    bIdx,          \* loop index i (1-based)
    timingCheck,   \* Some(value returned by checkBacktestTiming)
    cur,           \* Some(backtest record of the item in progress)
    results,       \* the results array
    store,         \* db.signals: id -> Some([sector, backtest])
    progress,      \* the calls made to onProgress, <<current, total>> each
    fetchCount,    \* remote fetches issued
    waitedMs,      \* rate-limit delay waited, in ms
    alerts,        \* messages shown with alert()
    thrown,        \* Some(message of the Error backtestBatch threw)
    run,           \* 1 for the first run of the batch, 2 for its re-run
    fetched,       \* per item of the run: Some(what its fetch settled with)
    log,           \* what the run did, in order: <<kind, item>> each
    firstRun,      \* Some([store, fetched] at the end of the first run)
    summary,       \* Some(the counts runBacktest reports on completion)
    \* generateMockIntradayData
    genArgs,       \* its arguments: [date, symbol, openPrice]
    sine,          \* which stand-in plays Math.sin (see seededRandom)
    genPc,         \* "idle" | "loop" | "returned" ("off" outside GenSpec)
    seedBase,      \* its locals
    seedCounter,
    currentPrice,
    currentHour,
    currentMinute,
    data,          \* the session under construction, or returned last
    calls,         \* calls that have returned
    firstData,     \* Some(session the first call returned)
    \* Settings (components/Settings.tsx)
    credentials,   \* React state: [clientId, accessToken, status]
    stored,        \* localStorage 'dhan_credentials' (Undefined when absent)
    isTesting,     \* a connection test is awaited
    testCreds,     \* Some(credentials the awaited test was started with)
    tested,        \* the <<clientId, accessToken>> pairs that passed a test
    \* App: the history view's backtest button
    backtestingBatchId,  \* Some(batch id) while runBacktest is in progress
    runs,          \* the runBacktest calls in progress: [batch, pc, i] each
    started,       \* runBacktest calls made so far
    \* App: saveRankings
    ranks,         \* the rank fields of db.signals: id -> Some(rank)
    pendingRankings,  \* the unsaved rankings: id -> Some(rank)
    saveTodo,      \* the pending entries saveRankings has not read yet
    updates,       \* its updates array: [id, fields, rank] each
    savePc,        \* "idle" | "get" | "put" | "done" ("off" outside RankSpec)
    \* App: deleteBatch
    table,         \* db.signals as rows [id, date, strategy, csvFileName]
    lastDelete     \* Some([batchId, before]) of the last deleteBatch call

scanVars == <<signal, intradayData, scanPc, tickIdx, bt, result>>

\* The wall clock, and the rest of the batch runner's state.
clockVars == <<today, clockMin>>

runVars ==
    <<configured, batch, bPc, bIdx, timingCheck, cur, results, store, progress,
      fetchCount, waitedMs, alerts, thrown, run, fetched, log, firstRun,
      summary>>

batchVars == <<clockVars, runVars>>

genVars ==
    <<genArgs, sine, genPc, seedBase, seedCounter, currentPrice, currentHour,
      currentMinute, data, calls, firstData>>

credVars == <<credentials, stored, isTesting, testCreds, tested>>

uiVars == <<backtestingBatchId, runs, started>>

rankVars == <<ranks, pendingRankings, saveTodo, updates, savePc>>

deleteVars == <<table, lastDelete>>

appVars == <<credVars, uiVars, rankVars, deleteVars>>

vars == <<scanVars, batchVars, genVars, appVars>>

\* The scanner at rest, and the batch runner at rest.
ScanOff ==
    /\ signal = BatchSignal(1, TRUE, InvalidDate)
    /\ intradayData = <<>>
    /\ scanPc = "off"
    /\ tickIdx = 1
    /\ bt = ScanStart
    /\ result = Undefined

BatchOff ==
    /\ today = 1
    /\ clockMin = MarketCloseTime
    /\ configured = FALSE
    /\ batch = [date |-> InvalidDate, signals |-> <<>>]
    /\ bPc = "off"
    /\ bIdx = 1
    /\ timingCheck = Undefined
    /\ cur = Undefined
    /\ results = <<>>
    /\ store = [id \in Ids |-> Undefined]
    /\ progress = <<>>
    /\ fetchCount = 0
    /\ waitedMs = 0
    /\ alerts = <<>>
    /\ thrown = Undefined
    /\ run = 1
    /\ fetched = <<>>
    /\ log = <<>>
    /\ firstRun = Undefined
    /\ summary = Undefined

\* The generator at rest.
GenOff ==
    /\ genArgs = [date |-> <<>>, symbol |-> <<>>, openPrice |-> 0]
    /\ sine = 1
    /\ genPc = "off"
    /\ seedBase = 0
    /\ seedCounter = 0
    /\ currentPrice = 0
    /\ currentHour = 0
    /\ currentMinute = 0
    /\ data = <<>>
    /\ calls = 0
    /\ firstData = Undefined

\* The settings panel and the history view at rest.
NoCredentials == [clientId |-> "", accessToken |-> "", status |-> "expired"]

CredOff ==
    /\ credentials = NoCredentials
    /\ stored = Undefined
    /\ isTesting = FALSE
    /\ testCreds = Undefined
    /\ tested = {}

UiOff ==
    /\ backtestingBatchId = Undefined
    /\ runs = <<>>
    /\ started = 0

RankOff ==
    /\ ranks = [id \in Ids |-> Undefined]
    /\ pendingRankings = [id \in Ids |-> Undefined]
    /\ saveTodo = <<>>
    /\ updates = <<>>
    /\ savePc = "off"

DeleteOff ==
    /\ table = {}
    /\ lastDelete = Undefined

AppOff == CredOff /\ UiOff /\ RankOff /\ DeleteOff

\* ----------------------------------------------------- scanner, stepwise
ScanInit ==
    /\ signal \in Signals
    /\ intradayData \in Sessions
    /\ scanPc = "loop"
    /\ tickIdx = 1
    /\ bt = ScanStart
    /\ result = Undefined
    /\ BatchOff
    /\ GenOff
    /\ AppOff

\* One pass through the loop body; the loop is left on the break or after
\* the last tick.  tickIdx stays on the tick that was processed last.
ScanLoop ==
    /\ scanPc = "loop"
    /\ LET n == ScanTick(signal, bt, intradayData[tickIdx], tickIdx)
       IN /\ bt' = n
          /\ IF ScanBreak(n) \/ tickIdx = Len(intradayData)
             THEN scanPc' = "outcome" /\ tickIdx' = tickIdx
             ELSE scanPc' = "loop" /\ tickIdx' = tickIdx + 1
    /\ UNCHANGED <<signal, intradayData, result, batchVars, genVars, appVars>>

\* Outcome calculation and return.
ScanReturn ==
    /\ scanPc = "outcome"
    /\ result' = MkRecord(bt, CalcOutcome(intradayData, bt))
    /\ scanPc' = "done"
    /\ UNCHANGED <<signal, intradayData, tickIdx, bt, batchVars, genVars, appVars>>

ScanNext == ScanLoop \/ ScanReturn

ScanSpec == ScanInit /\ [][ScanNext]_vars

\* ------------------------------------------------------- batch, stepwise
N == Len(batch.signals)

Init ==
    /\ ScanOff
    /\ GenOff
    /\ AppOff
    /\ today \in Dates
    /\ clockMin \in ClockTimes
    /\ configured \in BOOLEAN
    /\ batch \in Batches
    /\ bPc = "idle"
    /\ bIdx = 1
    /\ timingCheck = Undefined
    /\ cur = Undefined
    /\ results = <<>>
    /\ store = [id \in Ids |-> Undefined]
    /\ progress = <<>>
    /\ fetchCount = 0
    /\ waitedMs = 0
    /\ alerts = <<>>
    /\ thrown = Undefined
    /\ run = 1
    /\ fetched = <<>>
    /\ log = <<>>
    /\ firstRun = Undefined
    /\ summary = Undefined

\* The answers confirm() can return: it is shown only for a batch that
\* already carries a backtest.
ConfirmAnswers == IF hasBacktest(batch.signals) THEN BOOLEAN ELSE {TRUE}

\* runBacktest of the view that calls backtestBatch without a timing check of
\* its own: the confirm dialog, then backtestBatch.
RunBacktestDirect ==
    /\ bPc = "idle"
    /\ \E rerun \in ConfirmAnswers : bPc' = IF rerun THEN "start" ELSE "declined"
    /\ UNCHANGED <<scanVars, genVars, appVars, summary, today, clockMin, configured, batch, bIdx,
                   timingCheck, cur, results, store, progress, fetchCount,
                   waitedMs, alerts, thrown, run, fetched, log, firstRun>>

\* runBacktest of the history view: canRunBacktest first, and an alert and
\* return when it does not allow the run; then the confirm dialog.
RunBacktestHistory ==
    /\ bPc = "idle"
    /\ LET timeCheck == canRunBacktest(batch.date, today, clockMin)
       IN IF ~timeCheck.allowed
          THEN bPc' = "blocked" /\ alerts' = Append(alerts, timeCheck.message)
          ELSE /\ \E rerun \in ConfirmAnswers :
                    bPc' = IF rerun THEN "start" ELSE "declined"
               /\ alerts' = alerts
    /\ UNCHANGED <<scanVars, genVars, appVars, summary, today, clockMin, configured, batch, bIdx,
                   timingCheck, cur, results, store, progress, fetchCount,
                   waitedMs, thrown, run, fetched, log, firstRun>>

\* backtestBatch up to its loop: the timing check on the first signal's date,
\* alert and throw when it rejects.
BatchStart ==
    /\ bPc = "start"
    /\ IF N > 0
       THEN LET tc == checkBacktestTiming(batch.signals[1].date, today, clockMin)
            IN /\ timingCheck' = Some(tc)
               /\ IF GuardRejects(N, tc)
                  THEN /\ alerts' = Append(alerts, tc.message)
                       /\ thrown' = Some(tc.message)
                       /\ bPc' = "rejected"
                  ELSE /\ bPc' = "item"
                       /\ UNCHANGED <<alerts, thrown>>
       ELSE /\ bPc' = "item"
            /\ UNCHANGED <<timingCheck, alerts, thrown>>
    /\ UNCHANGED <<scanVars, genVars, appVars, summary, today, clockMin, configured, batch, bIdx, cur,
                   results, store, progress, fetchCount, waitedMs, run, fetched,
                   log, firstRun>>

\* Head of the loop body for item bIdx: onProgress, then backtestSignal up to
\* its first await.  Without credentials it returns the no-data record at once;
\* otherwise the remote fetch is issued.
ItemBegin ==
    /\ bPc = "item"
    /\ bIdx <= N
    /\ progress' = Append(progress, <<bIdx, N>>)
    /\ IF ~configured
       THEN /\ cur' = Some(NoDataRecord)
            /\ results' = Append(results,
                   [signal |-> batch.signals[bIdx],
                    sector |-> SectorOf(batch.signals[bIdx]),
                    backtest |-> NoDataRecord])
            /\ fetched' = Append(fetched, Undefined)
            /\ log' = log \o <<<<"progress", bIdx>>, <<"result", bIdx>>>>
            /\ bPc' = "persist"
            /\ UNCHANGED fetchCount
       ELSE /\ fetchCount' = fetchCount + 1
            /\ log' = log \o <<<<"progress", bIdx>>, <<"fetch", bIdx>>>>
            /\ bPc' = "fetch"
            /\ UNCHANGED <<cur, results, fetched>>
    /\ UNCHANGED <<scanVars, genVars, appVars, summary, today, clockMin, configured, batch, bIdx,
                   timingCheck, store, waitedMs, alerts, thrown, run, firstRun>>

\* What the fetch of item i can settle with: anything on the first run; on the
\* re-run the provider answers as it did the first time, or fails.
Settlements(i) ==
    IF run = 1 THEN Responses ELSE {firstRun[1].fetched[i][1], Rejection}

\* The fetch settles; backtestSignal scans the ticks (or gives the no-data
\* record) and returns, and the result is pushed.
FetchReturn ==
    /\ bPc = "fetch"
    /\ \E r \in Settlements(bIdx) :
        LET rec == BacktestOf(batch.signals[bIdx], r)
        IN /\ cur' = Some(rec)
           /\ results' = Append(results,
                  [signal |-> batch.signals[bIdx],
                   sector |-> SectorOf(batch.signals[bIdx]),
                   backtest |-> rec])
           /\ fetched' = Append(fetched, Some(r))
    /\ log' = Append(log, <<"result", bIdx>>)
    /\ bPc' = "persist"
    /\ UNCHANGED <<scanVars, genVars, appVars, summary, today, clockMin, configured, batch, bIdx,
                   timingCheck, store, progress, fetchCount, waitedMs, alerts,
                   thrown, run, firstRun>>

\* db.signals.update for a signal with an id, then the choice between the
\* rate-limit delay and the next item.
Persist_NoWrite ==
    /\ bPc = "persist"
    /\ IF DelayNeeded(bIdx, N, cur[1])
       THEN bPc' = "delay" /\ bIdx' = bIdx
       ELSE bPc' = "item" /\ bIdx' = bIdx + 1
    /\ UNCHANGED <<scanVars, genVars, appVars, summary, today, clockMin, configured, batch, timingCheck,
                   cur, results, progress, fetchCount, waitedMs, alerts, thrown,
                   run, fetched, firstRun, store, log>>

Persist ==
    /\ bPc = "persist"
    /\ LET sig == batch.signals[bIdx]
       IN IF sig.id # Undefined
          THEN /\ store' = [store EXCEPT ![sig.id[1]] =
                             update(store[sig.id[1]],
                                    [sector |-> SectorOf(sig), backtest |-> cur[1]])]
               /\ log' = Append(log, <<"write", bIdx>>)
          ELSE UNCHANGED <<store, log>>
    /\ IF DelayNeeded(bIdx, N, cur[1])
       THEN bPc' = "delay" /\ bIdx' = bIdx
       ELSE bPc' = "item" /\ bIdx' = bIdx + 1
    /\ UNCHANGED <<scanVars, genVars, appVars, summary, today, clockMin, configured, batch, timingCheck,
                   cur, results, progress, fetchCount, waitedMs, alerts, thrown,
                   run, fetched, firstRun>>

\* await delay(delayMs) has elapsed.
DelayDone ==
    /\ bPc = "delay"
    /\ waitedMs' = waitedMs + DHAN_RATE_LIMIT_DELAY
    /\ log' = Append(log, <<"delay", bIdx>>)
    /\ bIdx' = bIdx + 1
    /\ bPc' = "item"
    /\ UNCHANGED <<scanVars, genVars, appVars, summary, today, clockMin, configured, batch, timingCheck,
                   cur, results, store, progress, fetchCount, alerts, thrown,
                   run, fetched, firstRun>>

\* The loop is over: the summary is logged and results returned.
BatchFinish ==
    /\ bPc = "item"
    /\ bIdx > N
    /\ bPc' = "done"
    /\ UNCHANGED <<scanVars, genVars, appVars, summary, today, clockMin, configured, batch, bIdx,
                   timingCheck, cur, results, store, progress, fetchCount,
                   waitedMs, alerts, thrown, run, fetched, log, firstRun>>

\* runBacktest after backtestBatch has returned: the history is loaded again
\* and the completion shown; the batch, now carrying its outcomes, can be run
\* a second time.
Reload ==
    /\ bPc = "done"
    /\ run = 1
    /\ firstRun' = Some([store |-> store, fetched |-> fetched])
    /\ batch' = loadHistory(batch, store)
    /\ summary' = Some([dhanCount |-> CountBySource(results, "dhan"),
                        yfinanceCount |-> CountBySource(results, "yfinance"),
                        noDataCount |-> CountNoData(results),
                        totalCount |-> Len(results)])
    /\ alerts' = Append(alerts, "Backtest completed")
    /\ run' = 2
    /\ bPc' = "idle"
    /\ bIdx' = 1
    /\ timingCheck' = Undefined
    /\ cur' = Undefined
    /\ results' = <<>>
    /\ progress' = <<>>
    /\ fetchCount' = 0
    /\ waitedMs' = 0
    /\ fetched' = <<>>
    /\ log' = <<>>
    /\ UNCHANGED <<scanVars, genVars, appVars, today, clockMin, configured, store, thrown>>

Next ==
    \/ RunBacktestDirect
    \/ RunBacktestHistory
    \/ BatchStart
    \/ ItemBegin
    \/ FetchReturn
    \/ Persist
    \/ DelayDone
    \/ BatchFinish
    \/ Reload

Spec == Init /\ [][Next]_vars

\* The price levels a signal handed to backtestBatch can carry: TSignal puts
\* no constraint on side, entry, target and stopLoss.  In order: a LONG and a
\* SHORT signal with their levels in order, a LONG and a SHORT signal with
\* target and stop on the wrong sides, a LONG signal with a stop of zero.
IntakeLevels ==
    {[side |-> "LONG", entry |-> 2, target |-> 3, stopLoss |-> 1],
     [side |-> "SHORT", entry |-> 2, target |-> 1, stopLoss |-> 3],
     [side |-> "LONG", entry |-> 2, target |-> 1, stopLoss |-> 3],
     [side |-> "SHORT", entry |-> 2, target |-> 3, stopLoss |-> 1],
     [side |-> "LONG", entry |-> 1, target |-> 2, stopLoss |-> 0]}

\* Batches of stored signals of yesterday, with any of these levels.
IntakeBatches ==
    {[date |-> Some(1),
      signals |-> [i \in 1..Len(lv) |->
                      [BatchSignal(i, TRUE, Some(1)) EXCEPT
                          !.side = lv[i].side, !.entry = lv[i].entry,
                          !.target = lv[i].target, !.stopLoss = lv[i].stopLoss]]] :
        lv \in UNION {[1..n -> IntakeLevels] : n \in 0..MaxBatch}}

\* The runner before its first run, nothing done yet.
RunAtRest ==
    /\ bPc = "idle"
    /\ bIdx = 1
    /\ timingCheck = Undefined
    /\ cur = Undefined
    /\ results = <<>>
    /\ store = [id \in Ids |-> Undefined]
    /\ progress = <<>>
    /\ fetchCount = 0
    /\ waitedMs = 0
    /\ alerts = <<>>
    /\ thrown = Undefined
    /\ run = 1
    /\ fetched = <<>>
    /\ log = <<>>
    /\ firstRun = Undefined
    /\ summary = Undefined

IntakeInit ==
    /\ ScanOff
    /\ GenOff
    /\ AppOff
    /\ today = 2
    /\ clockMin = DataAvailableTime
    /\ configured \in BOOLEAN
    /\ batch \in IntakeBatches
    /\ RunAtRest

\* backtestBatch on batches whose signals carry any levels.
IntakeSpec == IntakeInit /\ [][Next]_vars

\* A run that was started at a time its date allows, with credentials stored.
LiveInit ==
    /\ Init
    /\ today = 2
    /\ clockMin = DataAvailableTime
    /\ configured
    /\ batch.date = Some(1)

\* What the program does by itself is done eventually: the handlers run, the
\* store write completes and the timer of the delay fires.  The answer to a
\* fetch is the provider's to give: fetchIntradayData sets no timeout and no
\* abort signal on its request, so nothing in the program ends a fetch that
\* is never answered.
LiveSpec ==
    /\ LiveInit
    /\ [][Next]_vars
    /\ WF_vars(RunBacktestDirect \/ RunBacktestHistory)
    /\ WF_vars(BatchStart)
    /\ WF_vars(ItemBegin)
    /\ WF_vars(Persist)
    /\ WF_vars(DelayDone)
    /\ WF_vars(BatchFinish)
    /\ WF_vars(Reload)

\* ------------------------------------------- the synthetic generator
\* A string is the sequence of its UTF-16 code units (str.charCodeAt(i)).
\* "2025-10-14" and "2025-10-15"; "TCS" and "WIPRO".
GenDates ==
    {<<50, 48, 50, 53, 45, 49, 48, 45, 49, 52>>,
     <<50, 48, 50, 53, 45, 49, 48, 45, 49, 53>>}

GenSymbols == {<<84, 67, 83>>, <<87, 73, 80, 82, 79>>}

\* Opening prices, in hundredths.
OpenPrices == {1000, 2500}

\* The stand-ins for Math.sin (see seededRandom).
SineStandIns == {37, 61}

startHour == 9

startMinute == 15

endHour == 15

endMinute == 30

\* One round of the loop of hashString on the 32-bit word h, held as its two
\* 16-bit halves <<hi, lo>>: ((hash << 5) - hash) + char is 31 * hash + char,
\* and `hash & hash` keeps its low 32 bits.
HashStep(h, char) ==
    LET lo == h[2] * 31 + char
        hi == h[1] * 31 + lo \div 65536
    IN <<hi % 65536, lo % 65536>>

RECURSIVE HashFrom(_, _, _)
HashFrom(str, i, h) ==
    IF i > Len(str) THEN h ELSE HashFrom(str, i + 1, HashStep(h, str[i]))

\* Math.abs of the word read as a signed 32-bit integer.
hashString(str) ==
    LET h == HashFrom(str, 1, <<0, 0>>)
    IN IF h[1] < 32768
       THEN h[1] * 65536 + h[2]
       ELSE (65535 - h[1]) * 65536 + (65536 - h[2])

\* Math.sin(seed) * 10000 less its floor: a number in [0, 1) that depends on
\* the seed alone, given here in hundredths.  The sine itself is not computed;
\* its part is played by a fixed scrambling of the seed, the stand-in chosen
\* once for the whole behaviour.
seededRandom(seed) == ((seed % 89) * sine) % 100

\* The loop condition: the clock has not passed the end of the session.
InSession_EndExclusive(hour, minute) ==
    hour < endHour \/ (hour = endHour /\ minute < endMinute)

InSession(hour, minute) ==
    hour < endHour \/ (hour = endHour /\ minute <= endMinute)

\* currentMinute += 5, carried into the hour at 60.
NextTime(hour, minute) ==
    IF minute + 5 >= 60 THEN <<hour + 1, 0>> ELSE <<hour, minute + 5>>

GenInit ==
    /\ ScanOff
    /\ BatchOff
    /\ AppOff
    /\ genArgs \in [date : GenDates, symbol : GenSymbols, openPrice : OpenPrices]
    /\ sine \in SineStandIns
    /\ genPc = "idle"
    /\ seedBase = 0
    /\ seedCounter = 0
    /\ currentPrice = 0
    /\ currentHour = 0
    /\ currentMinute = 0
    /\ data = <<>>
    /\ calls = 0
    /\ firstData = Undefined

\* A call of generateMockIntradayData(date, symbol, openPrice), up to its
\* loop: the locals are set up afresh.  The generator is called twice with
\* the same arguments.
GenCall_KeepsCounter ==
    /\ genPc \in {"idle", "returned"}
    /\ calls < 2
    /\ seedBase' = hashString(genArgs.date \o <<45>> \o genArgs.symbol)
    /\ seedCounter' = seedCounter
    /\ currentPrice' = genArgs.openPrice
    /\ currentHour' = startHour
    /\ currentMinute' = startMinute
    /\ data' = <<>>
    /\ genPc' = "loop"
    /\ UNCHANGED <<scanVars, batchVars, appVars, genArgs, sine, calls, firstData>>

GenCall ==
    /\ genPc \in {"idle", "returned"}
    /\ calls < 2
    /\ seedBase' = hashString(genArgs.date \o <<45>> \o genArgs.symbol)
    /\ seedCounter' = 0
    /\ currentPrice' = genArgs.openPrice
    /\ currentHour' = startHour
    /\ currentMinute' = startMinute
    /\ data' = <<>>
    /\ genPc' = "loop"
    /\ UNCHANGED <<scanVars, batchVars, appVars, genArgs, sine, calls, firstData>>

\* One pass through the loop body: the price moves, a tick is pushed and the
\* clock of the session advances.  Prices are whole hundredths, rounded down.
GenTick ==
    /\ genPc = "loop"
    /\ InSession(currentHour, currentMinute)
    /\ LET random1 == seededRandom(seedBase + seedCounter)
           change == ((random1 - 48) * currentPrice * 2) \div 10000
           price == currentPrice + change
           random2 == seededRandom(seedBase + seedCounter + 1)
           random3 == seededRandom(seedBase + seedCounter + 2)
           high == price + (price * random2) \div 10000
           low == price - (price * random3) \div 10000
           next == NextTime(currentHour, currentMinute)
       IN /\ data' = Append(data, [time |-> <<currentHour, currentMinute>>,
                                   price |-> price, high |-> high, low |-> low])
          /\ currentPrice' = price
          /\ seedCounter' = seedCounter + 3
          /\ currentHour' = next[1]
          /\ currentMinute' = next[2]
    /\ UNCHANGED <<scanVars, batchVars, appVars, genArgs, sine, genPc, seedBase, calls,
                   firstData>>

\* The loop condition fails: data is returned.
GenReturn ==
    /\ genPc = "loop"
    /\ ~InSession(currentHour, currentMinute)
    /\ genPc' = "returned"
    /\ calls' = calls + 1
    /\ firstData' = IF calls = 0 THEN Some(data) ELSE firstData
    /\ UNCHANGED <<scanVars, batchVars, appVars, genArgs, sine, seedBase, seedCounter,
                   currentPrice, currentHour, currentMinute, data>>

\* The wall clock moves on, to any other date and time of day.
ClockMoves ==
    /\ genPc # "off"
    /\ \E d \in Dates, t \in ClockTimes :
        /\ <<d, t>> # <<today, clockMin>>
        /\ today' = d
        /\ clockMin' = t
    /\ UNCHANGED <<scanVars, runVars, genVars, appVars>>

GenNext == GenCall \/ GenTick \/ GenReturn \/ ClockMoves

GenSpec == GenInit /\ [][GenNext]_vars

\* ================================================= properties of the scanner
\* The vocabulary of the specification: the entry, target and stop conditions
\* on tick i of the session, written out from the transition rules.
Ticks == 1..Len(intradayData)

IsLong == signal.side = "LONG"

EntryAt(i) ==
    \/ IsLong /\ intradayData[i].low <= signal.entry
    \/ ~IsLong /\ intradayData[i].high >= signal.entry

TargetAt(i) ==
    \/ IsLong /\ intradayData[i].high >= signal.target
    \/ ~IsLong /\ intradayData[i].low <= signal.target

StopAt(i) ==
    \/ IsLong /\ intradayData[i].low <= signal.stopLoss
    \/ ~IsLong /\ intradayData[i].high >= signal.stopLoss

HasEntry == \E i \in Ticks : EntryAt(i)

\* The earliest tick that satisfies the entry condition.
FirstEntry == CHOOSE i \in Ticks : EntryAt(i) /\ \A j \in 1..(i - 1) : ~EntryAt(j)

\* Some tick at or after the entry tick satisfies the target or stop condition.
HasResolve ==
    HasEntry /\ \E i \in FirstEntry..Len(intradayData) : TargetAt(i) \/ StopAt(i)

\* The earliest such tick: the tick on which the position is resolved.
ResolveTick ==
    CHOOSE i \in FirstEntry..Len(intradayData) :
        /\ TargetAt(i) \/ StopAt(i)
        /\ \A j \in FirstEntry..(i - 1) : ~(TargetAt(j) \/ StopAt(j))

ScanDone == scanPc = "done"

\* Clock minutes of a 24-hour "HH:MM" and of a 12-hour "H:MM AM|PM" time.
Mins24(t) == t[1] * 60 + t[2]

Mins12(t) == ((t[1] % 12) + (IF t[3] = "PM" THEN 12 ELSE 0)) * 60 + t[2]

\* Tick times never decrease along the session.
Ascending ==
    \A i \in Ticks : \A j \in Ticks :
        i <= j => Mins24(intradayData[i].time) <= Mins24(intradayData[j].time)

\* A signal whose levels are ordered as the data model requires.
ValidLevels ==
    IF IsLong
    THEN signal.target > signal.entry /\ signal.entry > signal.stopLoss
    ELSE signal.stopLoss > signal.entry /\ signal.entry > signal.target

\* C1 -- Tie-break: when the resolving tick satisfies both the target and the
\* stop-loss condition, the result is STOP ("sl"), never TARGET, for LONG and
\* SHORT signals alike.
C1_TieBreakStopWins ==
    (ScanDone /\ HasResolve /\ TargetAt(ResolveTick) /\ StopAt(ResolveTick))
        => result.outcome = "sl"

\* A valid signal entered on one tick and resolved on a later tick whose range
\* covers both the target and the stop.
C1_Witness ==
    /\ ScanDone /\ ValidLevels /\ HasResolve
    /\ FirstEntry < ResolveTick
    /\ TargetAt(ResolveTick) /\ StopAt(ResolveTick)
    /\ result.targetHit /\ result.slHit /\ result.outcome = "sl"

\* C2 -- Entry rule: entryHit is true exactly when some tick satisfies the
\* entry condition, and the recorded entry time is the clock time of the
\* earliest such tick.
C2_EntryRule ==
    ScanDone =>
        /\ result.entryHit <=> HasEntry
        /\ HasEntry =>
            /\ bt.entryTick = FirstEntry
            /\ Mins12(result.entryHitTime) = Mins24(intradayData[FirstEntry].time)
        /\ ~HasEntry => result.entryHitTime = Undefined

\* Entry on a tick that is not the first, with a later tick that satisfies the
\* entry condition again, at a different clock time.
C2_Witness ==
    /\ ScanDone /\ HasEntry /\ FirstEntry > 1
    /\ \E j \in Ticks :
        /\ j > FirstEntry /\ EntryAt(j)
        /\ intradayData[j].time # intradayData[FirstEntry].time
    /\ result.entryHit

\* C3 -- The result is NO_TRIGGER exactly when no tick satisfies the entry
\* condition, or entry occurred and no tick at or after the entry tick
\* satisfies the target or the stop condition; otherwise it is TARGET or STOP.
C3_NoTriggerExactly ==
    ScanDone =>
        /\ result.outcome \in {"no_trigger", "target", "sl"}
        /\ result.outcome = "no_trigger" <=>
            \/ ~HasEntry
            \/ /\ HasEntry
               /\ \A i \in FirstEntry..Len(intradayData) : ~TargetAt(i) /\ ~StopAt(i)

\* Entered but undecided: the target condition held only before the entry tick.
C3_Witness ==
    /\ ScanDone /\ HasEntry /\ ~HasResolve
    /\ \E j \in 1..(FirstEntry - 1) : TargetAt(j)
    /\ FirstEntry < Len(intradayData)
    /\ result.entryHit /\ result.outcome = "no_trigger"

\* C4 -- AWAITING_ENTRY -> ENTERED -> RESOLVED: in every state of the scan and
\* in the returned record, a target or stop hit implies the entry hit, and no
\* hit is detected on a tick before the entry tick.
C4_EntryBeforeHit ==
    /\ (bt.targetHit \/ bt.slHit) => bt.entryHit
    /\ bt.entryHit => bt.entryTick \in 1..tickIdx
    /\ bt.targetHit => bt.targetTick \in bt.entryTick..tickIdx
    /\ bt.slHit => bt.slTick \in bt.entryTick..tickIdx
    /\ (scanPc = "loop" /\ tickIdx > 1) => ~(bt.targetHit \/ bt.slHit)
    /\ ScanDone => ((result.targetHit \/ result.slHit) => result.entryHit)

\* The target condition held on a tick before the entry tick and was not
\* counted; the target was then hit on a tick after the entry tick.
C4_Witness ==
    /\ ScanDone /\ HasEntry /\ FirstEntry > 1
    /\ \E j \in 1..(FirstEntry - 1) : TargetAt(j)
    /\ result.targetHit /\ bt.targetTick > bt.entryTick

\* C5 -- Early stop: once the position is resolved, later ticks change nothing.
\* Every session has the record of its own prefix cut right after the resolving
\* tick, so two sessions that agree up to that tick have identical records.
C5_EarlyStop ==
    (ScanDone /\ HasResolve) =>
        result = ScanRecord(signal, SubSeq(intradayData, 1, ResolveTick))

\* Resolved as TARGET before the last tick, with a later tick that satisfies
\* the stop condition.
C5_Witness ==
    /\ ScanDone /\ HasResolve /\ ResolveTick < Len(intradayData)
    /\ \E j \in (ResolveTick + 1)..Len(intradayData) : StopAt(j)
    /\ result.outcome = "target" /\ ~result.slHit

\* C6 -- On a session with ascending tick times, minutesToTarget is set exactly
\* when the result is TARGET and minutesToStop exactly when it is STOP, and the
\* value is the clock time of the resolving tick minus that of the entry tick,
\* in minutes (hence >= 0).
C6_MinutesToResolve ==
    (ScanDone /\ Ascending) =>
        LET delta == Mins24(intradayData[ResolveTick].time)
                     - Mins24(intradayData[FirstEntry].time)
        IN /\ result.timeToTarget # Undefined <=> result.outcome = "target"
           /\ result.timeToSL # Undefined <=> result.outcome = "sl"
           /\ result.outcome = "target" =>
                result.timeToTarget = <<delta>> /\ delta >= 0
           /\ result.outcome = "sl" =>
                result.timeToSL = <<delta>> /\ delta >= 0

\* Entry at 09:15, target at 10:45: 90 minutes.
C6_Witness ==
    /\ ScanDone /\ Ascending /\ HasResolve
    /\ intradayData[FirstEntry].time = <<9, 15>>
    /\ intradayData[ResolveTick].time = <<10, 45>>
    /\ result.outcome = "target" /\ result.timeToTarget = <<90>>

\* The constants K of the LONG/SHORT reflection.
MirrorConstants == {0, 4}

\* The SHORT signal and the session reflected about K.
MirrorSignal(K) ==
    [side |-> "SHORT", entry |-> K - signal.entry,
     target |-> K - signal.target, stopLoss |-> K - signal.stopLoss]

MirrorSession(K) ==
    [i \in Ticks |->
        [time |-> intradayData[i].time,
         high |-> K - intradayData[i].low, low |-> K - intradayData[i].high]]

\* C7 -- SHORT mirror: the SHORT signal reflected about K, on the reflected
\* session, yields the same flags, hit times and result as the LONG signal.
C7_ShortMirror ==
    (ScanDone /\ IsLong) =>
        \A K \in MirrorConstants :
            LET m == ScanRecord(MirrorSignal(K), MirrorSession(K))
            IN /\ m.entryHit = result.entryHit
               /\ m.targetHit = result.targetHit
               /\ m.slHit = result.slHit
               /\ m.entryHitTime = result.entryHitTime
               /\ m.targetHitTime = result.targetHitTime
               /\ m.slHitTime = result.slHitTime
               /\ m.outcome = result.outcome

\* A valid LONG signal stopped out on a tick after its entry tick.
C7_Witness ==
    /\ ScanDone /\ IsLong /\ ValidLevels /\ HasResolve
    /\ FirstEntry < ResolveTick
    /\ result.outcome = "sl" /\ ~result.targetHit

\* ================================================= properties of the batch
\* backtestBatch has evaluated its timing check on a non-empty batch.
GuardEvaluated == N > 0 /\ bPc \notin {"idle", "blocked", "declined", "start"}

BatchDateIsToday == batch.date # InvalidDate /\ batch.date[1] = today

BatchDateBefore == batch.date # InvalidDate /\ batch.date[1] < today

BatchDateAfter == batch.date # InvalidDate /\ batch.date[1] > today

\* Nothing has been fetched, written, reported or waited, and nothing returned.
NoBatchEffects ==
    /\ fetchCount = 0
    /\ \A id \in Ids : store[id] = Undefined
    /\ progress = <<>>
    /\ waitedMs = 0
    /\ results = <<>>
    /\ cur = Undefined

\* C8 -- Timing guard, today before the cutoff: for a batch dated today and
\* any wall-clock time before 16:00 (15:30 close + 30 minutes), the guard
\* returns not-allowed and backtestBatch rejects the run, between 15:30 and
\* 16:00 included.
C8_TodayBeforeCutoffRejected ==
    (GuardEvaluated /\ BatchDateIsToday /\ clockMin < 16 * 60) =>
        /\ ~timingCheck[1].canBacktest
        /\ bPc = "rejected"

\* C9 -- Timing guard, other dates: at every wall-clock time a date strictly
\* before today is allowed and a date strictly after today is disallowed; the
\* guard always returns a (boolean, reason) value, also for a date that does
\* not parse.
C9_OtherDates ==
    GuardEvaluated =>
        /\ timingCheck # Undefined
        /\ timingCheck[1].canBacktest \in BOOLEAN
        /\ timingCheck[1].message \in STRING
        /\ BatchDateBefore => (timingCheck[1].canBacktest /\ bPc # "rejected")
        /\ BatchDateAfter => (~timingCheck[1].canBacktest /\ bPc = "rejected")

\* A batch dated tomorrow rejected at a time after the cutoff.
C9_Witness ==
    /\ GuardEvaluated /\ BatchDateAfter /\ clockMin >= 16 * 60
    /\ bPc = "rejected"

\* C10 -- When the guard disallows the run, backtestBatch throws the guard's
\* reason before anything else: no fetch is issued, no record written to the
\* store, onProgress is not called and no rate-limit delay is waited.
C10_RejectedNoEffects ==
    (GuardEvaluated /\ ~timingCheck[1].canBacktest) =>
        /\ bPc = "rejected"
        /\ thrown = Some(timingCheck[1].message)
        /\ NoBatchEffects

\* A two-signal batch dated today, credentials configured, rejected at 15:29.
C10_Witness ==
    /\ bPc = "rejected" /\ N = 2 /\ configured
    /\ BatchDateIsToday /\ clockMin = 15 * 60 + 29
    /\ \A i \in 1..N : batch.signals[i].id # Undefined
    /\ thrown # Undefined /\ NoBatchEffects

\* The run has passed its timing check and is in, or past, its loop.
Accepted == bPc \in {"item", "fetch", "persist", "delay", "done"}

\* Item i has its result, and no data could be obtained for it: credentials
\* not configured (no fetch was made), a provider error, or no ticks.
NoDataObtained(i) ==
    /\ i <= Len(fetched)
    /\ \/ fetched[i] = Undefined
       \/ fetched[i][1].threw
       \/ Len(fetched[i][1].ticks) = 0

\* A record that says no data, and nothing else: no hit and no result.
IsNoData(b) ==
    /\ b.noData
    /\ ~b.entryHit /\ ~b.targetHit /\ ~b.slHit
    /\ b.outcome = "undefined"

Did(kind, i) == {p \in 1..Len(log) : log[p] = <<kind, i>>}

HasId(i) == batch.signals[i].id # Undefined

\* The items whose outcome this run has written to the store.
Written == {i \in 1..N : Did("write", i) # {}}

\* What the store held under id before this run began.
HeldBefore(id) == IF run = 1 THEN Undefined ELSE firstRun[1].store[id]

\* A backtest record that is whole: no-data, or a result with its entry flag.
Complete(b) ==
    \/ IsNoData(b)
    \/ /\ ~b.noData
       /\ b.outcome \in {"target", "sl", "no_trigger"}
       /\ b.entryHit \in BOOLEAN /\ b.targetHit \in BOOLEAN /\ b.slHit \in BOOLEAN

\* C12 -- Persistence ordering: when the fetch of an item begins, the outcome
\* of every earlier item (that has a row in the store) has been written; so at
\* every point of a run the outcomes it has written are those of a prefix of
\* the input list, each the whole record of that item's result, and the rows
\* of the other items are as they were before the run.
C12_PersistBeforeNextFetch ==
    Accepted =>
        /\ \A p \in 1..Len(log) :
            log[p][1] = "fetch" =>
                \A j \in 1..(log[p][2] - 1) :
                    HasId(j) => \E q \in Did("write", j) : q < p
        /\ \E k \in 0..N : Written = {j \in 1..k : HasId(j)}
        /\ \A j \in Written :
            /\ j <= Len(results)
            /\ Complete(results[j].backtest)
            /\ store[batch.signals[j].id[1]] =
                  Some([sector |-> results[j].sector,
                        backtest |-> results[j].backtest])
        /\ \A j \in 1..N :
            (HasId(j) /\ j \notin Written) =>
                store[batch.signals[j].id[1]] = HeldBefore(batch.signals[j].id[1])

\* The first run stopped while the fetch of the second of two stored signals
\* is in flight: the outcome of the first is in the store, a resolved one.
C12_Witness ==
    /\ run = 1 /\ bPc = "fetch" /\ bIdx = 2 /\ N = 2
    /\ HasId(1) /\ HasId(2)
    /\ store[1] # Undefined /\ store[1][1].backtest.outcome = "sl"
    /\ store[2] = Undefined

\* C13 -- Progress callback ordering: onProgress(i, total) is invoked for
\* item i only after item i has completed: its result has been produced from
\* the resolved data and its outcome has been persisted.
C13_ProgressAfterItem ==
    Accepted =>
        \A p \in 1..Len(log) :
            log[p][1] = "progress" =>
                /\ \E q \in Did("result", log[p][2]) : q < p
                /\ HasId(log[p][2]) => \E q \in Did("write", log[p][2]) : q < p

\* The positions of the log at which a remote call was issued.
FetchPositions == {p \in 1..Len(log) : log[p][1] = "fetch"}

\* C14 -- Rate limiting: between any two consecutive remote calls of a run the
\* delay of 1000 ms has been waited, whatever the earlier call came to; so a
\* run that has issued M calls has waited at least M - 1 full delays.
C14_DelayBetweenCalls ==
    Accepted =>
        /\ \A p, q \in FetchPositions :
            p < q => \E d \in (p + 1)..(q - 1) : log[d][1] = "delay"
        /\ fetchCount > 0 => waitedMs >= (fetchCount - 1) * 1000

\* C15 -- The rate-limit delay is never waited after the final item of a
\* batch, and never after an item that was resolved without a remote call:
\* every delay, elapsed or in progress, follows a remote call of an item that
\* is not the last.
C15_NoDelayAfterLastOrLocal ==
    Accepted =>
        /\ \A p \in 1..Len(log) :
            log[p][1] = "delay" =>
                /\ log[p][2] < N
                /\ \E q \in Did("fetch", log[p][2]) : q < p
        /\ bPc = "delay" => (bIdx < N /\ Did("fetch", bIdx) # {})
        /\ ~configured => waitedMs = 0

\* A finished two-signal run: both signals resolved on delivered ticks, one
\* delay waited after the first and none after the second.
C15_Witness ==
    /\ bPc = "done" /\ N = 2 /\ configured
    /\ ~results[1].backtest.noData /\ ~results[2].backtest.noData
    /\ Did("delay", 1) # {} /\ Did("delay", 2) = {}
    /\ waitedMs = 1000

\* The items of the run for which a remote call has settled.
Settled == {i \in 1..Len(fetched) : fetched[i] # Undefined}

\* C16 -- Fallback chain: a failure of the primary provider's call is caught
\* inside the resolver, which goes on to the next provider; it is never
\* propagated to the resolver's caller, so no call of the resolver settles
\* with a rejection in backtestSignal.
C16_FailureNotPropagated ==
    Accepted => \A i \in Settled : ~fetched[i][1].threw

\* C17 -- Origin tagging: whenever the provider call for a signal delivers a
\* non-empty tick sequence, the record backtestSignal returns is a resolved
\* outcome (target, stop or no trigger) of real data, tagged with the origin
\* of the ticks; such a signal is never recorded as no-data.
C17_TicksGiveTaggedOutcome ==
    Accepted =>
        \A i \in Settled :
            Len(fetched[i][1].ticks) > 0 =>
                /\ ~results[i].backtest.noData
                /\ results[i].backtest.outcome \in {"target", "sl", "no_trigger"}
                /\ results[i].backtest.usedRealData
                /\ results[i].backtest.dataSource \in {"dhan", "yfinance"}

\* ============================================== properties of the generator
\* Minutes after midnight of the time of tick i of the session.
TickMinutes(i) == data[i].time[1] * 60 + data[i].time[2]

GenReturned == genPc = "returned"

\* C18 -- Synthetic session coverage: for every (date, symbol, price) the
\* generator terminates (its session never grows past 76 ticks) and returns
\* one tick per 5-minute boundary from 09:15 to 15:30 inclusive: 76 ticks,
\* the first at 09:15, the last at 15:30, each a valid HH:MM, consecutive
\* ticks exactly 5 minutes apart and so in strictly ascending order.
C18_SessionCoverage ==
    /\ genPc \in {"loop", "returned"} => Len(data) <= 76
    /\ GenReturned =>
        /\ Len(data) = 76
        /\ data[1].time = <<9, 15>>
        /\ data[76].time = <<15, 30>>
        /\ \A i \in 1..Len(data) :
            /\ data[i].time[1] \in 0..23
            /\ data[i].time[2] \in 0..59
            /\ TickMinutes(i) = 9 * 60 + 15 + 5 * (i - 1)
        /\ \A i \in 1..(Len(data) - 1) : TickMinutes(i + 1) = TickMinutes(i) + 5

\* A returned session whose tenth tick is the first after an hour rollover.
C18_Witness ==
    /\ GenReturned /\ calls = 1
    /\ data[9].time = <<9, 55>> /\ data[10].time = <<10, 0>>
    /\ data[76].time = <<15, 30>>

\* C19 -- Determinism: the session is a function of (date, symbol, price)
\* alone: the second call with the same arguments, made at whatever the wall
\* clock has become and after the first call has left its state behind,
\* builds tick by tick the session the first call returned.
C19_SameInputsSameSession ==
    /\ (genPc = "loop" /\ calls = 1) =>
        /\ Len(data) <= Len(firstData[1])
        /\ data = SubSeq(firstData[1], 1, Len(data))
    /\ (GenReturned /\ calls = 2) => data = firstData[1]

\* The second call has returned, at another wall-clock date and time than the
\* run began with, a session whose prices moved away from the opening price.
C19_Witness ==
    /\ GenReturned /\ calls = 2
    /\ today # 1 /\ clockMin # 15 * 60 + 30
    /\ firstData # Undefined
    /\ data[1].price # genArgs.openPrice
    /\ data[76].price # data[1].price

\* ================================================== properties of the re-run
\* The second run of the batch has returned, and every remote call of it
\* settled as the call for the same signal did in the first run.
RerunDoneOnSameData ==
    /\ run = 2 /\ bPc = "done"
    /\ fetched = firstRun[1].fetched

\* Two stored rows carry the same outcome: hit flags, hit times, result and
\* minutes to target and to stop.
SameOutcome(a, b) ==
    /\ a.backtest.entryHit = b.backtest.entryHit
    /\ a.backtest.entryHitTime = b.backtest.entryHitTime
    /\ a.backtest.targetHit = b.backtest.targetHit
    /\ a.backtest.targetHitTime = b.backtest.targetHitTime
    /\ a.backtest.slHit = b.backtest.slHit
    /\ a.backtest.slHitTime = b.backtest.slHitTime
    /\ a.backtest.outcome = b.backtest.outcome
    /\ a.backtest.timeToTarget = b.backtest.timeToTarget
    /\ a.backtest.timeToSL = b.backtest.timeToSL

\* C20 -- Idempotence: after a second run of backtestBatch over the same
\* signals and date, with the provider answering as in the first run, every
\* signal has in the store the outcome record it had after the first run,
\* although the signals of the second run carried the first run's outcome.
C20_RerunIdempotent ==
    RerunDoneOnSameData =>
        \A id \in Ids :
            /\ (store[id] = Undefined) <=> (firstRun[1].store[id] = Undefined)
            /\ store[id] # Undefined => SameOutcome(store[id][1], firstRun[1].store[id][1])

\* A re-run of two stored signals, whose inputs carried the first outcomes:
\* the first reached its target after 90 minutes, the second was stopped out.
C20_Witness ==
    /\ RerunDoneOnSameData /\ N = 2 /\ configured
    /\ batch.signals[1].backtest # Undefined
    /\ batch.signals[2].backtest # Undefined
    /\ store[1] # Undefined /\ store[1][1].backtest.timeToTarget = <<90>>
    /\ store[2] # Undefined /\ store[2][1].backtest.outcome = "sl"

\* ====================================== further properties of the scanner
\* C28 -- In every record backtestSignal produces, targetHit and slHit are
\* both true only when both were detected on one and the same tick, with
\* equal hit times; so a record whose result is "target" has slHit false,
\* and the both-hit branch, comparing equal times, gives "sl".
C28_BothHitOnlyOnOneTick ==
    ScanDone =>
        /\ (result.targetHit /\ result.slHit) =>
            /\ HasResolve
            /\ TargetAt(ResolveTick) /\ StopAt(ResolveTick)
            /\ result.targetHitTime = result.slHitTime
            /\ result.outcome = "sl"
        /\ result.outcome = "target" => ~result.slHit

\* A valid signal whose entry tick is followed by a tick that reaches both
\* its target and its stop.
C28_Witness ==
    /\ ScanDone /\ ValidLevels /\ HasResolve
    /\ FirstEntry < ResolveTick
    /\ result.targetHit /\ result.slHit
    /\ result.outcome = "sl"

\* ================================================ properties of the summary
\* The categories of the completion summary a result falls in.
Categories(b) ==
    {c \in {"dhan", "yfinance", "noData"} :
        \/ c = "noData" /\ b.noData
        \/ c # "noData" /\ b.dataSource = c}

\* C25 -- Summary counts: when a batch completes every processed signal is in
\* exactly one category of the summary, so the counts reported for Dhan and
\* Yahoo Finance and the no-data count add up to the number of signals.
C25_SummaryAddsUp ==
    /\ bPc = "done" =>
        \A i \in 1..Len(results) : Cardinality(Categories(results[i].backtest)) = 1
    /\ summary # Undefined =>
        /\ summary[1].totalCount = N
        /\ summary[1].dhanCount + summary[1].yfinanceCount
              + summary[1].noDataCount = summary[1].totalCount

\* The summary of a two-signal run: one from Yahoo Finance, one without data.
C25_Witness ==
    /\ summary # Undefined /\ N = 2
    /\ summary[1].yfinanceCount = 1 /\ summary[1].noDataCount = 1
    /\ summary[1].dhanCount = 0

C23_AcceptedBatchCompletes ==
    (Accepted /\ bPc # "done") ~> (bPc = "done" /\ Len(results) = N)

\* ================================================== properties of the intake
\* The levels of a signal are well formed: all positive, and target > entry >
\* stopLoss for LONG, stopLoss > entry > target for SHORT.
WellFormed(s) ==
    /\ s.entry > 0 /\ s.target > 0 /\ s.stopLoss > 0
    /\ IF s.side = "LONG"
       THEN s.target > s.entry /\ s.entry > s.stopLoss
       ELSE s.stopLoss > s.entry /\ s.entry > s.target

\* C22 -- Invalid signals: a signal whose levels are malformed is excluded
\* from the batch at intake: the run does nothing for it, no data is fetched
\* for it and no result is produced for it by the scanner.
C22_MalformedExcluded ==
    \A i \in 1..N :
        ~WellFormed(batch.signals[i]) =>
            /\ Did("progress", i) = {}
            /\ Did("fetch", i) = {}
            /\ Did("result", i) = {}
            /\ Did("write", i) = {}

\* ------------------------------------------------ insights: the histogram
\* Infinity, the one bound no number of minutes reaches.
Infinity == <<>>

\* TIME_BUCKETS_MIN, each finite bound n held as <<n>>.
TIME_BUCKETS_MIN == <<Some(0), Some(15), Some(30), Some(60), Some(120), Infinity>>

\* mins < end, for a bound of TIME_BUCKETS_MIN.
BelowBound(mins, end) == end = Infinity \/ mins < end[1]

\* JavaScript truthiness of an optional number: undefined and 0 are falsy.
Truthy(x) == x # Undefined /\ x[1] # 0

\* The histogram of useBacktestInsights: one bucket per pair of consecutive
\* bounds; a row is counted in the first bucket that holds its minutes, and
\* skipped when its backtest or its timeToTarget is falsy.
histogram(rs) ==
    LET nb == Len(TIME_BUCKETS_MIN) - 1
        Holds(k, mins) ==
            /\ mins >= TIME_BUCKETS_MIN[k][1]
            /\ BelowBound(mins, TIME_BUCKETS_MIN[k + 1])
        Found(k, r) ==
            /\ r.backtest # Undefined
            /\ Truthy(r.backtest[1].timeToTarget)
            /\ LET mins == r.backtest[1].timeToTarget[1]
               IN Holds(k, mins) /\ \A j \in 1..(k - 1) : ~Holds(j, mins)
    IN [k \in 1..nb |->
           [start |-> TIME_BUCKETS_MIN[k], end |-> TIME_BUCKETS_MIN[k + 1],
            count |-> Cardinality({i \in 1..Len(rs) : Found(k, rs[i])})]]

\* The rows the hook charts once the scanner has returned: the backtested
\* signal.
rows == IF scanPc = "done" THEN <<[backtest |-> Some(result)]>> ELSE <<>>

RECURSIVE SumCounts(_, _)
SumCounts(buckets, k) ==
    IF k > Len(buckets) THEN 0 ELSE buckets[k].count + SumCounts(buckets, k + 1)

IsTarget(r) == r.backtest # Undefined /\ r.backtest[1].outcome = "target"

\* C30: every backtested signal whose outcome is target is counted in exactly
\* one histogram bucket, so the bucket counts add up to the number of target
\* outcomes; a target reached on the entry bar (timeToTarget = 0) is counted
\* in the first, 0-15 minute, bucket.
C30_TargetsCountedOnce ==
    LET h == histogram(rows)
    IN /\ SumCounts(h, 1) = Cardinality({i \in 1..Len(rows) : IsTarget(rows[i])})
       /\ \A i \in 1..Len(rows) :
              (IsTarget(rows[i]) /\ rows[i].backtest[1].timeToTarget = Some(0))
                  => h[1].count >= 1

\* --------------------------------------------- settings: the credentials
\* What can be typed into the two fields; "old" is a token whose exp claim
\* has passed.
ClientIds == {"", "c1"}

AccessTokens == {"", "t1", "t2", "old"}

isTokenExpired(token) == token = "old"

\* dhanApi.getCredentials: the stored credentials when they have a client id,
\* a token and status 'active', else null.
getCredentials ==
    IF /\ stored # Undefined
       /\ stored[1].clientId # ""
       /\ stored[1].accessToken # ""
       /\ stored[1].status = "active"
    THEN stored
    ELSE Undefined

isConfigured == getCredentials # Undefined

CredInit ==
    /\ ScanOff
    /\ BatchOff
    /\ GenOff
    /\ AppOff

\* The onChange handlers of the two inputs: the status is kept.
EditClientId ==
    /\ \E v \in ClientIds : credentials' = [credentials EXCEPT !.clientId = v]
    /\ UNCHANGED <<scanVars, batchVars, genVars, uiVars, rankVars, deleteVars,
                   stored, isTesting, testCreds, tested>>

EditAccessToken ==
    /\ \E v \in AccessTokens :
           credentials' = [credentials EXCEPT !.accessToken = v]
    /\ UNCHANGED <<scanVars, batchVars, genVars, uiVars, rankVars, deleteVars,
                   stored, isTesting, testCreds, tested>>

\* saveCredentials: the state is stored with the status it has.
saveCredentials ==
    /\ stored' = Some(credentials)
    /\ UNCHANGED <<scanVars, batchVars, genVars, uiVars, rankVars, deleteVars,
                   credentials, isTesting, testCreds, tested>>

\* testConnection up to its await; the button is disabled while a test is
\* awaited or a field is empty.
TestBegin ==
    /\ ~isTesting
    /\ credentials.clientId # "" /\ credentials.accessToken # ""
    /\ IF isTokenExpired(credentials.accessToken)
       THEN /\ credentials' = [credentials EXCEPT !.status = "expired"]
            /\ stored' = Some(credentials')
            /\ UNCHANGED <<isTesting, testCreds>>
       ELSE /\ isTesting' = TRUE
            /\ testCreds' = Some([credentials EXCEPT !.status = "active"])
            /\ stored' = testCreds'
            /\ UNCHANGED credentials
    /\ UNCHANGED <<scanVars, batchVars, genVars, uiVars, rankVars, deleteVars,
                   tested>>

\* testConnection after its await: dhanApi.testConnection() answered isValid
\* for the pair that was stored when it was called.
TestEnd ==
    /\ isTesting
    /\ \E isValid \in BOOLEAN :
         IF isValid
         THEN /\ credentials' = testCreds[1]
              /\ tested' = tested \cup {<<testCreds[1].clientId,
                                          testCreds[1].accessToken>>}
              /\ UNCHANGED stored
         ELSE /\ credentials' = [testCreds[1] EXCEPT !.status = "expired"]
              /\ stored' = Some(credentials')
              /\ UNCHANGED tested
    /\ isTesting' = FALSE
    /\ testCreds' = Undefined
    /\ UNCHANGED <<scanVars, batchVars, genVars, uiVars, rankVars, deleteVars>>

CredNext ==
    \/ EditClientId
    \/ EditAccessToken
    \/ saveCredentials
    \/ TestBegin
    \/ TestEnd

CredSpec == CredInit /\ [][CredNext]_vars

\* C27: the stored credentials are active (dhanApi.isConfigured() is true)
\* only if that exact clientId/accessToken pair has passed a connection test.
C27_ActiveOnlyIfTested ==
    isConfigured =>
        <<stored[1].clientId, stored[1].accessToken>> \in tested

\* ------------------------------------- history view: the backtest button
\* The batches listed in the history view, by id; each holds MaxBatch signals,
\* is old enough for canRunBacktest, and credentials are configured.
HistoryBatches == {"A", "B"}

\* runBacktest calls made in one session of the view.
MaxRuns == 3

RemoveAt(s, k) == [j \in 1..(Len(s) - 1) |-> IF j < k THEN s[j] ELSE s[j + 1]]

\* The button of batch b is disabled only while b is the batch named by
\* backtestingBatchId.
isDisabled(b) == backtestingBatchId = Some(b)

UiInit ==
    /\ ScanOff
    /\ BatchOff
    /\ GenOff
    /\ AppOff

\* A click on the button of batch b: runBacktest up to the first fetch of
\* backtestBatch.
ClickBacktest ==
    /\ started < MaxRuns
    /\ \E b \in HistoryBatches :
        /\ ~isDisabled(b)
        /\ backtestingBatchId' = Some(b)
        /\ runs' = Append(runs, [batch |-> b, pc |-> "fetch", i |-> 1])
    /\ started' = started + 1
    /\ UNCHANGED <<scanVars, batchVars, genVars, credVars, rankVars, deleteVars>>

\* The fetch of a run settles; the run issues db.signals.update.
RunFetched ==
    /\ \E k \in 1..Len(runs) :
        /\ runs[k].pc = "fetch"
        /\ runs' = [runs EXCEPT ![k].pc = "write"]
    /\ UNCHANGED <<scanVars, batchVars, genVars, credVars, rankVars, deleteVars,
                   backtestingBatchId, started>>

\* The update of a run completes; the run waits out the rate-limit delay, or
\* has finished its last item.
RunWritten ==
    /\ \E k \in 1..Len(runs) :
        /\ runs[k].pc = "write"
        /\ runs' = [runs EXCEPT ![k].pc = IF runs[k].i < MaxBatch
                                          THEN "delay" ELSE "finish"]
    /\ UNCHANGED <<scanVars, batchVars, genVars, credVars, rankVars, deleteVars,
                   backtestingBatchId, started>>

\* The delay of a run is over; it fetches for its next item.
RunDelayed ==
    /\ \E k \in 1..Len(runs) :
        /\ runs[k].pc = "delay"
        /\ runs' = [runs EXCEPT ![k].pc = "fetch", ![k].i = runs[k].i + 1]
    /\ UNCHANGED <<scanVars, batchVars, genVars, credVars, rankVars, deleteVars,
                   backtestingBatchId, started>>

\* backtestBatch has returned to runBacktest: reload, alert, and the finally
\* block, which clears backtestingBatchId whichever batch it names.
RunFinish ==
    /\ \E k \in 1..Len(runs) :
        /\ runs[k].pc = "finish"
        /\ runs' = RemoveAt(runs, k)
    /\ backtestingBatchId' = Undefined
    /\ UNCHANGED <<scanVars, batchVars, genVars, credVars, rankVars, deleteVars,
                   started>>

UiNext ==
    \/ ClickBacktest
    \/ RunFetched
    \/ RunWritten
    \/ RunDelayed
    \/ RunFinish

UiSpec == UiInit /\ [][UiNext]_vars

InFlight(pc) == {k \in 1..Len(runs) : runs[k].pc = pc}

\* C24: at every moment at most one remote fetch is in flight and at most one
\* backtest run is in progress writing outcomes to the store, whatever the
\* user clicks in the history view.
C24_SingleWriter ==
    /\ Cardinality(InFlight("fetch")) <= 1
    /\ Cardinality(InFlight("write")) <= 1
    /\ Len(runs) <= 1

\* ------------------------------------------- history view: saveRankings
\* The ranks that can be typed for a signal.  One AI source stands for the
\* three: each is handled by the same lines.
RankValues == {1, 2}

\* Batches of stored signals of yesterday, one or more.
RankedBatches ==
    {[date |-> Some(1),
      signals |-> [i \in 1..n |-> BatchSignal(i, TRUE, Some(1))]] :
        n \in 1..MaxBatch}

\* db.signals.get(id) finds a record: the signals of the batch are stored.
Stored(id) == id \in 1..N

RankInit ==
    /\ ScanOff
    /\ GenOff
    /\ CredOff
    /\ UiOff
    /\ DeleteOff
    /\ today = 2
    /\ clockMin = DataAvailableTime
    /\ configured \in BOOLEAN
    /\ batch \in RankedBatches
    /\ RunAtRest
    /\ ranks = [id \in Ids |-> Undefined]
    /\ pendingRankings \in [Ids -> {Undefined} \cup {Some(r) : r \in RankValues}]
    /\ saveTodo = <<>>
    /\ updates = <<>>
    /\ savePc = "idle"

\* The orders in which a Map holding the keys S can list them.
Orders(S) ==
    {s \in [1..Cardinality(S) -> S] :
        \A a, b \in 1..Cardinality(S) : a # b => s[a] # s[b]}

\* saveRankings up to its loop: nothing is done when nothing is pending.
SaveStart ==
    /\ savePc = "idle"
    /\ LET P == {id \in Ids : pendingRankings[id] # Undefined}
       IN IF P = {}
          THEN savePc' = "done" /\ saveTodo' = saveTodo
          ELSE savePc' = "get" /\ saveTodo' \in Orders(P)
    /\ UNCHANGED <<scanVars, batchVars, genVars, credVars, uiVars, deleteVars,
                   ranks, pendingRankings, updates>>

\* One pass of the loop: the whole record is read, its rank fields are set
\* on the copy, and the copy is pushed to updates.
SaveGet ==
    /\ savePc = "get"
    /\ LET id == Head(saveTodo)
       IN updates' = IF Stored(id)
                     THEN Append(updates, [id |-> id, fields |-> store[id],
                                           rank |-> pendingRankings[id]])
                     ELSE updates
    /\ saveTodo' = Tail(saveTodo)
    /\ savePc' = IF Len(saveTodo) = 1 THEN "put" ELSE "get"
    /\ UNCHANGED <<scanVars, batchVars, genVars, credVars, uiVars, deleteVars,
                   ranks, pendingRankings>>

\* db.signals.bulkPut(updates): every copy replaces the record under its id;
\* then the pending rankings are cleared.
SaveBulkPut ==
    /\ savePc = "put"
    /\ LET Put(id) == {k \in 1..Len(updates) : updates[k].id = id}
       IN /\ store' = [id \in Ids |->
                         IF Put(id) = {} THEN store[id]
                         ELSE updates[CHOOSE k \in Put(id) : TRUE].fields]
          /\ ranks' = [id \in Ids |->
                         IF Put(id) = {} THEN ranks[id]
                         ELSE updates[CHOOSE k \in Put(id) : TRUE].rank]
    /\ pendingRankings' = [id \in Ids |-> Undefined]
    /\ savePc' = "done"
    /\ UNCHANGED <<scanVars, genVars, credVars, uiVars, deleteVars, clockVars,
                   configured, batch, bPc, bIdx, timingCheck, cur, results,
                   progress, fetchCount, waitedMs, alerts, thrown, run, fetched,
                   log, firstRun, summary, saveTodo, updates>>

RankNext ==
    \/ Next
    \/ SaveStart
    \/ SaveGet
    \/ SaveBulkPut

RankSpec == RankInit /\ [][RankNext]_vars

\* C26: when saveRankings interleaves with a running backtestBatch, no
\* outcome the batch persisted is lost: once both have completed, the store
\* holds, for every signal the run wrote, the outcome of the run, and the
\* saved rank of every signal that was ranked.
C26_NoLostUpdate ==
    (Accepted /\ bPc = "done" /\ savePc = "done") =>
        /\ \A i \in Written :
            LET row == store[batch.signals[i].id[1]]
            IN row # Undefined /\ row[1].backtest = results[i].backtest
        /\ \A k \in 1..Len(updates) : ranks[updates[k].id] = updates[k].rank

\* -------------------------------------------- history view: deleteBatch
\* A string is held as the sequence of its parts between underscores:
\* "my_file.csv" is <<"my", "file.csv">>.  Joining strings with '_' is then
\* concatenation, and split('_') yields the parts.
DeleteDates == {<<"2025-01-01">>, <<"2025-01-02">>}

StrategyNames == {<<"Momentum">>, <<"Breakout">>}

\* details.csvFileName: absent, plain, or with an underscore in it.
CsvFileNames == {Undefined, <<"nifty.csv">>, <<"file.csv">>, <<"my", "file.csv">>}

DeleteSymbols == {"WIPRO", "TCS"}

SignalRows ==
    [date : DeleteDates, strategy : StrategyNames, csvFileName : CsvFileNames,
     symbol : DeleteSymbols]

\* Rows in the table when the history view is opened.
MaxRows == 3

\* The tables of at most n rows.
RECURSIVE Tables(_)
Tables(n) ==
    IF n = 0 THEN {{}}
    ELSE LET T == Tables(n - 1)
         IN T \cup {t \cup {r} : t \in T, r \in SignalRows}

\* The key loadHistory groups a signal under, which is the id of its batch.
BatchKey(s) ==
    LET csvFile == IF s.csvFileName = Undefined THEN <<"Unknown.csv">>
                   ELSE s.csvFileName
    IN s.date \o s.strategy \o csvFile

DeleteInit ==
    /\ ScanOff
    /\ BatchOff
    /\ GenOff
    /\ CredOff
    /\ UiOff
    /\ RankOff
    /\ table \in Tables(MaxRows)
    /\ lastDelete = Undefined

\* deleteBatch(batchId), for a batch the history view lists.
deleteBatch ==
    /\ \E batchId \in {BatchKey(s) : s \in table} :
        LET parts == batchId
            date == <<parts[1]>>
            csvFileName == <<parts[Len(parts)]>>
            toDelete == {s \in table :
                            s.date = date /\ s.csvFileName = csvFileName}
        IN /\ table' = table \ toDelete
           /\ lastDelete' = Some([batchId |-> batchId, before |-> table])
    /\ UNCHANGED <<scanVars, batchVars, genVars, credVars, uiVars, rankVars>>

DeleteNext == deleteBatch

DeleteSpec == DeleteInit /\ [][DeleteNext]_vars

\* C29: deleteBatch(batchId) removes exactly the signals of that batch, those
\* whose date, strategy and CSV file name make up its key, and leaves every
\* other signal in the table.
C29_DeletesExactlyBatch ==
    lastDelete # Undefined =>
        table = {s \in lastDelete[1].before :
                    BatchKey(s) # lastDelete[1].batchId}

====
